---------------------------- MODULE Spec2Model ----------------------------
(***************************************************************************)
(* A model of appdaemon's AppManagement (src/appdaemon/app_management.py): *)
(* the reconciliation cycle check_app_updates and the dependency engine    *)
(* get_app_deps_and_prios / topological_sort it uses.                      *)
(*                                                                         *)
(* Scope.  The apps directory is read in directory mode: the deprecated    *)
(* single apps.yaml (self.app_config_file) does not exist.  Collaborators  *)
(* (callbacks, scheduler, api, threading, logging) do not raise.  A        *)
(* priority p of the code is the integer p * 10000 here (50 is 500000,     *)
(* 50.1 is 501000 and the step 0.0001 is 1).  A python dict is a sequence  *)
(* of keys (its iteration order) and a function on them.                   *)
(***************************************************************************)
EXTENDS Integers, Sequences, FiniteSets, TLC

\* ------------------------------------------------------------ bounds ----
\* How many app names, code modules and configuration documents exist.
NApps == 3
NModules == 2
NDocs == 2
\* How many dependencies one app definition lists at most in the lifecycle
\* specification (the dependency engine's own specification lists any number).
MaxDeps == 1
\* How many changes the environment makes to the watched directory.
MaxEdits == 1

AppNames == <<"A", "B", "C", "D", "E">>
ModNames == <<"m1", "m2", "m3", "m4">>
Apps == {AppNames[i] : i \in 1..NApps}
Modules == {ModNames[i] : i \in 1..NModules}
Docs == 1..NDocs

\* ------------------------------------------------- program constants ----
PrioStart == 501000
PrioStep == 1
PrioDefault == 500000
\* "priority" key absent from an app definition
NoPrio == 0
\* the configured priorities the model draws from: none, 10, 60
PrioSpace == {NoPrio, 100000, 600000}

\* --------------------------------------------------------- sequences ----
Range(s) == {s[i] : i \in DOMAIN s}

IndexOf(s, x) == CHOOSE i \in DOMAIN s : s[i] = x

IsInjective(s) == \A i, j \in DOMAIN s : s[i] = s[j] => i = j

\* every sequence that lists each element of S exactly once
Perms(S) == {s \in [1..Cardinality(S) -> S] : Range(s) = S}

RECURSIVE Filter(_, _)
\* the subsequence of s whose elements are in S (a dict or list comprehension)
Filter(s, S) ==
    IF s = <<>> THEN <<>>
    ELSE (IF Head(s) \in S THEN <<Head(s)>> ELSE <<>>) \o Filter(Tail(s), S)


\* ------------------------------------------------ app configuration ----
\* An app definition (one entry of the yaml documents, "class" and "module"
\* present): its module, its "dependencies" list ({}: no such key), its
\* "priority" (NoPrio: no such key), its "global_dependencies" list ({}:
\* no such key), its "plugin" list (NoPlugin: no such key), its "class" and
\* whether its "disable" is True.
\* A "plugin" entry is the name of one plugin (kind "scalar") or a list of
\* names (kind "list"), which may be empty.
Plugins == {"p1", "p2"}
NoPlugin == [kind |-> "none", names |-> {}]
OnePlugin(p) == [kind |-> "scalar", names |-> {p}]
PluginList(S) == [kind |-> "list", names |-> S]
\* the plugin argument of check_app_updates: None, and the wildcard
NoSignal == "-"
AllPlugins == "__ALL__"
Def(deps, gdeps, plugs, classes, flags) ==
    [module : Modules, dependencies : deps, priority : PrioSpace, gmods : gdeps,
     plugin : plugs, class : classes, disable : flags]

\* The classes the modules define, by what their code does when called:
\* App does nothing wrong, the constructor of BadConstructor raises, the
\* initialize() of BadInitialize raises and the terminate() of BadTerminate
\* raises.  Missing is a class name that the module does not define.
Classes == {"App", "BadConstructor", "BadInitialize", "BadTerminate", "Missing"}


\* The entry "global_modules" of the configuration is a list of module names
\* (gmods), not an app definition: it has no key of one.
GM == "global_modules"
NoModule == "-"
GlobalModules(S) ==
    [module |-> NoModule, dependencies |-> {}, priority |-> NoPrio, gmods |-> S,
     plugin |-> NoPlugin, class |-> "-", disable |-> FALSE]

\* self.app_config: the keys in iteration order and the definition of each.
\* the function on no argument
EmptyFcn == [x \in {} |-> 0]

EmptyConfig == [names |-> <<>>, args |-> EmptyFcn]

\* the configuration that lists the apps of f (a function on a set of app
\* names) in the order of AppNames
ConfigOf(f) ==
    [names |-> Filter(SubSeq(AppNames, 1, NApps) \o <<GM>>, DOMAIN f), args |-> f]

\* --------------------------------------------------------- the state ----
VARIABLES
    \* the watched directory (the environment)
    docs,           \* each yaml document: its status and modification time
    fs_apps,        \* the app definitions written in the readable documents
    pyfiles,        \* each code module's file: its status and modification time
    clock,          \* the latest modification time handed out
    \* the AppManagement object
    app_config,                 \* self.app_config
    app_config_files,           \* self.app_config_files
    app_config_file_modified,   \* self.app_config_file_modified
    monitored_files,            \* self.monitored_files
    modules,                    \* self.modules (its keys)
    sys_modules,                \* the interpreter's sys.modules (app modules)
    objects,                    \* self.objects
    callbacks,                  \* the apps that the callbacks, the scheduler
                                \* and the api hold entries of
    apps_initialized,           \* self.apps_initialized
    \* one call of check_app_updates
    pc,             \* where the program is
    exit,           \* the exit argument of the call
    plugin,         \* the plugin argument of the call
    apps,           \* the local apps: what check_config returned, as amended
    mod_list,       \* the local modules: the new or modified files found
    \* what has been observed
    trace,          \* the calls made since the cycle began: term_object,
                    \* read_app, init_object, initialize_app
    pre,            \* self.app_config and self.objects when the cycle began
    scanned,        \* apps as it was when the module scan ended
    planned,        \* apps as it was when the plan was complete
    read,           \* how the cycle's configuration read ended
    crashed,        \* whether the last call of check_app_updates raised
    edited,         \* whether the directory changed since the last cycle began
    quiet,          \* whether the cycle follows another with no change between
    \* the dependency engine on its own
    applist,        \* the argument of get_app_deps_and_prios
    sort_result,    \* what topological_sort yielded, and whether it raised
    prio_result,    \* what get_app_deps_and_prios returned
    \* the threads that call into the object
    objects_lock,   \* self.objects_lock: the thread that holds it, if any
    thread          \* each thread: the call it is in, and where in it

envVars == <<docs, fs_apps, pyfiles, clock>>
objVars == <<app_config, app_config_files, app_config_file_modified,
             monitored_files, modules, sys_modules, objects, callbacks,
             apps_initialized>>
cycleVars == <<pc, exit, plugin, apps, mod_list>>
histVars == <<trace, pre, scanned, planned, read, crashed, edited, quiet>>
sortVars == <<applist, sort_result, prio_result>>
threadVars == <<objects_lock, thread>>
vars == <<envVars, objVars, cycleVars, histVars, sortVars, threadVars>>

\* --------------------------------------------------- dependency engine ----
RECURSIVE sort_pass(_, _, _, _, _)
\* One pass of the for loop over pending: emitted is the list the previous
\* pass emitted, which this pass also appends to.
sort_pass(pending, i, emitted, next_pending, next_emitted) ==
    IF i > Len(pending)
    THEN [next_pending |-> next_pending, next_emitted |-> next_emitted]
    ELSE LET name == pending[i].name
             deps == pending[i].deps \ Range(emitted)
         IN  IF deps # {}
             THEN sort_pass(pending, i + 1, emitted,
                            Append(next_pending, [name |-> name, deps |-> deps]),
                            next_emitted)
             ELSE sort_pass(pending, i + 1, Append(emitted, name),
                            next_pending, Append(next_emitted, name))

RECURSIVE sort_loop(_, _, _)
\* The while loop: yielded is everything the generator has yielded so far.
sort_loop(pending, emitted, yielded) ==
    IF pending = <<>>
    THEN [order |-> yielded, raised |-> FALSE]
    ELSE LET p == sort_pass(pending, 1, emitted, <<>>, <<>>)
         IN  IF p.next_emitted = <<>>
             THEN [order |-> yielded, raised |-> TRUE]
             ELSE sort_loop(p.next_pending, p.next_emitted,
                            yielded \o p.next_emitted)

\* A sort that never looks at the dependencies: the names as given.
topological_sort_unordered(source) ==
    [order |-> [i \in DOMAIN source |-> source[i].name], raised |-> FALSE]

\* The names in the order the generator yields them, and whether it ended
\* by raising ValueError("cyclic dependancy detected").
topological_sort(source) == sort_loop(source, <<>>, <<>>)

\* line 703: the dependencies of app that are apps of the configuration
dependees(cfg, app) == cfg.args[app].dependencies \cap Range(cfg.names)

\* deps: one (app, dependees) entry per app of the full configuration
build_deps(cfg) ==
    [i \in 1..Len(cfg.names) |->
        [name |-> cfg.names[i], deps |-> dependees(cfg, cfg.names[i])]]

app_has_dependents(cfg, name) ==
    \E app \in Range(cfg.names) : name \in cfg.args[app].dependencies

RECURSIVE dependents_from(_, _, _, _)
\* The for loop of get_dependent_apps from the i-th app on; deps is the
\* list the code appends to, here the set of its elements.
dependents_from(cfg, dependee, i, deps) ==
    IF i > Len(cfg.names)
    THEN deps
    ELSE LET app == cfg.names[i]
         IN  IF dependee \in cfg.args[app].dependencies /\ app \notin deps
             THEN dependents_from(cfg, dependee, i + 1,
                      dependents_from(cfg, app, 1, deps \cup {app}))
             ELSE dependents_from(cfg, dependee, i + 1, deps)

\* A variant that stops at the apps that depend on dependee directly.
get_dependent_apps_direct(cfg, dependee, deps) ==
    deps \cup {app \in Range(cfg.names) : dependee \in cfg.args[app].dependencies}

\* lines 742-751
get_dependent_apps(cfg, dependee, deps) == dependents_from(cfg, dependee, 1, deps)

RECURSIVE build_deplist(_, _, _)
\* lines 688-692: applist and everything that depends on it
build_deplist(cfg, todo, deplist) ==
    IF todo = {}
    THEN deplist
    ELSE LET app == CHOOSE a \in todo : TRUE
         IN  build_deplist(cfg, todo \ {app},
                 get_dependent_apps(cfg, app, deplist \cup {app}))

RECURSIVE assign_prios_flat(_, _, _)
\* An assignment that never steps: line 716 left out.
assign_prios_flat(cfg, order, prio) ==
    IF order = <<>>
    THEN <<>>
    ELSE LET app == Head(order)
         IN  IF cfg.args[app].dependencies # {} \/ app_has_dependents(cfg, app)
             THEN <<prio>> \o assign_prios_flat(cfg, Tail(order), prio)
             ELSE <<IF cfg.args[app].priority # NoPrio
                    THEN cfg.args[app].priority
                    ELSE PrioDefault>> \o assign_prios_flat(cfg, Tail(order), prio)

RECURSIVE assign_prios(_, _, _)
\* lines 713-721: the priority of each app of order, in that order
assign_prios(cfg, order, prio) ==
    IF order = <<>>
    THEN <<>>
    ELSE LET app == Head(order)
         IN  IF cfg.args[app].dependencies # {} \/ app_has_dependents(cfg, app)
             THEN <<prio>> \o assign_prios(cfg, Tail(order), prio + PrioStep)
             ELSE <<IF cfg.args[app].priority # NoPrio
                    THEN cfg.args[app].priority
                    ELSE PrioDefault>> \o assign_prios(cfg, Tail(order), prio)

\* A dict app -> priority: its keys in insertion order, and the priorities.
PrioDict(names, values) ==
    [names |-> names,
     prio |-> [a \in Range(names) |-> values[IndexOf(names, a)]]]

\* A variant that goes on after the ValueError and gives the apps the
\* sort did not yield a priority too.
prio_apps_of_everyone(cfg) ==
    LET emitted == topological_sort(build_deps(cfg)).order
        order == emitted \o Filter(cfg.names, Range(cfg.names) \ Range(emitted))
    IN  PrioDict(order, assign_prios(cfg, order, PrioStart))

\* lines 694-723: prio_apps, the priority of every app the sort yielded
\* before it ended (the ValueError is passed over)
prio_apps_of(cfg) ==
    LET order == topological_sort(build_deps(cfg)).order
    IN  PrioDict(order, assign_prios(cfg, order, PrioStart))

\* A variant that gives up every priority once the sort has raised.
get_app_deps_and_prios_strict(cfg, wanted) ==
    LET deplist == build_deplist(cfg, wanted, {})
        prio_apps == prio_apps_of(cfg)
        final == IF topological_sort(build_deps(cfg)).raised
                 THEN <<>>
                 ELSE Filter(prio_apps.names, deplist)
    IN  [names |-> final, prio |-> [a \in Range(final) |-> prio_apps.prio[a]]]

\* final_apps: the apps of applist and their dependents, of prio_apps
get_app_deps_and_prios(cfg, wanted) ==
    LET deplist == build_deplist(cfg, wanted, {})
        prio_apps == prio_apps_of(cfg)
        final == Filter(prio_apps.names, deplist)
    IN  [names |-> final, prio |-> [a \in Range(final) |-> prio_apps.prio[a]]]

RECURSIVE insert_sorted(_, _, _, _)
\* s with x put after every element that sorts no later than x
insert_sorted(s, x, key, reverse) ==
    IF s = <<>>
    THEN <<x>>
    ELSE IF (IF reverse THEN key[Head(s)] >= key[x] ELSE key[Head(s)] <= key[x])
         THEN <<Head(s)>> \o insert_sorted(Tail(s), x, key, reverse)
         ELSE <<x>> \o s

RECURSIVE sorted_from(_, _, _, _)
sorted_from(names, key, reverse, acc) ==
    IF names = <<>>
    THEN acc
    ELSE sorted_from(Tail(names), key, reverse,
                     insert_sorted(acc, Head(names), key, reverse))

\* sorted(prio_apps, key=prio_apps.get, reverse=...): a stable sort
sorted(prio_apps, reverse) == sorted_from(prio_apps.names, prio_apps.prio, reverse, <<>>)


\* ------------------------------------------------ the watched directory ----
AppIndex(a) == CHOOSE i \in 1..NApps : AppNames[i] = a

\* the document an app's definition is written in
DocOf(a) == IF a = GM THEN 1 ELSE ((AppIndex(a) - 1) % NDocs) + 1

AppSeq == SubSeq(AppNames, 1, NApps) \o <<GM>>
ModSeq == SubSeq(ModNames, 1, NModules)

SetMax(S) == CHOOSE x \in S : \A y \in S : y <= x

Restrict(f, S) == [x \in S |-> f[x]]

\* A document is absent, "ok" (a mapping of app definitions), "malformed"
\* (yaml.load fails: read_config_file returns None) or "badentry" (a mapping
\* with a numeric entry, on which "class" in config[app] raises TypeError).
DocStatus == {"absent", "ok", "malformed", "badentry"}

\* A module file is absent, "ok" (it imports) or "broken" (importing or
\* reloading it raises).
PyStatus == {"absent", "ok", "broken"}

\* the .yaml files os.walk finds
yaml_files == {d \in Docs : docs[d].status # "absent"}

\* the .py files os.walk finds, in the order it finds them
found_files == Filter(ModSeq, {m \in Modules : pyfiles[m].status # "absent"})

\* -------------------------------------------------------- check_config ----
\* self.app_config_files is {} until the first scan and a list from then on
NoFiles == [listed |-> FALSE, files |-> {}]

check_later_app_configs ==
    LET later == {d \in yaml_files : docs[d].ts > app_config_file_modified}
        new == IF app_config_files.listed
               THEN yaml_files \ app_config_files.files
               ELSE {}
    IN  [latest |-> SetMax({app_config_file_modified}
                           \cup {docs[d].ts : d \in yaml_files}),
         files |-> later \cup new,
         deleted |-> app_config_files.files \ yaml_files]

RECURSIVE read_docs(_)
\* the app names of the documents d..NDocs in the order they are read
read_docs(d) ==
    IF d > NDocs
    THEN <<>>
    ELSE (IF docs[d].status = "ok"
          THEN Filter(AppSeq, {a \in DOMAIN fs_apps : DocOf(a) = d})
          ELSE <<>>) \o read_docs(d + 1)

\* A read_config that takes "no document" for an empty configuration.
read_config_or_empty ==
    IF \E d \in Docs : docs[d].status = "badentry"
    THEN [kind |-> "raised", config |-> EmptyConfig]
    ELSE LET names == read_docs(1)
         IN  [kind |-> "ok",
              config |-> [names |-> names, args |-> Restrict(fs_apps, Range(names))]]

\* new_config: None when there is no document, an exception when an entry
\* of a document is a number, and otherwise the valid apps of the documents
\* that parse to a mapping (any other document is ignored with a warning)
read_config ==
    IF yaml_files = {}
    THEN [kind |-> "none", config |-> EmptyConfig]
    ELSE IF \E d \in Docs : docs[d].status = "badentry"
    THEN [kind |-> "raised", config |-> EmptyConfig]
    ELSE LET names == read_docs(1)
         IN  [kind |-> "ok",
              config |-> [names |-> names, args |-> Restrict(fs_apps, Range(names))]]

\* the local apps: None, or the dicts "init" and "term" (their keys)
NoPlan == [none |-> TRUE, init |-> {}, term |-> {}]
Plan(init, term) == [none |-> FALSE, init |-> init, term |-> term]

\* A call the cycle made: of what, for which app or module, which apps the
\* registry held then, and whether the call did its work (the terminate or
\* initialize hook was invoked, the module loaded, the app registered).
Event(op, app, objs, ok) == [op |-> op, app |-> app, live |-> DOMAIN objs, ok |-> ok]

\* whether the terminate hook that term_object(name) calls raises
terminate_raises(name, objs) ==
    name \in DOMAIN objs /\ objs[name].args.class = "BadTerminate"

\* A term_object that lets the exception of the terminate hook out.
term_object_unguarded(name, st) ==
    LET ev == Append(st.events,
                     Event("term_object", name, st.objects, name \in DOMAIN st.objects))
    IN  IF terminate_raises(name, st.objects)
        THEN [st EXCEPT !.events = ev]
        ELSE [objects |-> Restrict(st.objects, DOMAIN st.objects \ {name}),
              callbacks |-> st.callbacks \ {name},
              events |-> ev]

\* A term_object that calls the hook and leaves the entry in the registry.
term_object_keeping(name, st) ==
    [st EXCEPT !.callbacks = @ \ {name},
               !.events = Append(@, Event("term_object", name, st.objects,
                                          name \in DOMAIN st.objects))]

\* lines 97-134, term_object(name) on the registry and the collaborators'
\* entries st: the terminate hook is called if the app is in the registry
\* and what it raises is logged; then the entry is deleted and the app's
\* callbacks, scheduler entries and api registrations are purged.
term_object(name, st) ==
    [objects |-> Restrict(st.objects, DOMAIN st.objects \ {name}),
     callbacks |-> st.callbacks \ {name},
     events |-> Append(st.events,
                       Event("term_object", name, st.objects,
                             name \in DOMAIN st.objects))]

RECURSIVE term_objects(_, _)
\* self.term_object(name) for each name of order in turn
term_objects(order, st) ==
    IF order = <<>>
    THEN st
    ELSE term_objects(Tail(order), term_object(Head(order), st))

\* the registry and the collaborators' entries, and no call made yet
Registry == [objects |-> objects, callbacks |-> callbacks, events |-> <<>>]

\* A config diff that also terminates the apps that depend on a removed app.
apply_config_cascading(new_config) ==
    LET old == Range(app_config.names)
        new == Range(new_config.names)
        changed == {n \in old \cap new : app_config.args[n] # new_config.args[n]}
        gone == (old \ new) \cup
                {n \in old : app_config.args[n].dependencies \cap (old \ new) # {}}
        t == term_objects(Filter(app_config.names, gone), Registry)
    IN  [apps |-> Plan(changed \cup ((new \ old) \ {GM}), changed),
         app_config |-> new_config,
         objects |-> t.objects,
         callbacks |-> t.callbacks,
         events |-> t.events]

\* A diff that plans the changed apps and leaves the added apps out.
apply_config_changed_only(new_config) ==
    LET old == Range(app_config.names)
        new == Range(new_config.names)
        changed == {n \in old \cap new : app_config.args[n] # new_config.args[n]}
        t == term_objects(Filter(app_config.names, old \ new), Registry)
    IN  [apps |-> Plan(changed, changed),
         app_config |-> new_config,
         objects |-> t.objects,
         callbacks |-> t.callbacks,
         events |-> t.events]

\* A diff that applies new_config and leaves the removed apps running.
apply_config_keeping(new_config) ==
    LET old == Range(app_config.names)
        new == Range(new_config.names)
        changed == {n \in old \cap new : app_config.args[n] # new_config.args[n]}
    IN  [apps |-> Plan(changed \cup ((new \ old) \ {GM}), changed),
         app_config |-> new_config,
         objects |-> objects,
         callbacks |-> callbacks,
         events |-> <<>>]

\* lines 313-364: the diff against new_config, which is then applied
apply_config(new_config) ==
    LET old == Range(app_config.names)
        new == Range(new_config.names)
        changed == {n \in old \cap new : app_config.args[n] # new_config.args[n]}
        t == term_objects(Filter(app_config.names, old \ new), Registry)
    IN  [apps |-> Plan(changed \cup ((new \ old) \ {GM}), changed),
         app_config |-> new_config,
         objects |-> t.objects,
         callbacks |-> t.callbacks,
         events |-> t.events]

config_kept == [apps |-> NoPlan, app_config |-> app_config,
                objects |-> objects, callbacks |-> callbacks, events |-> <<>>]

\* A check_config that applies whatever the read left in new_config.
config_outcome_lenient(r) == apply_config(r.config)

\* lines 299-303 and the except clause: no plan unless the read gave a
\* configuration
config_outcome(r) ==
    IF r.kind = "ok" THEN apply_config(r.config) ELSE config_kept

check_config ==
    LET latest == check_later_app_configs
    IN  IF latest.files \cup latest.deleted = {}
        THEN [read |-> "skipped", out |-> [config_kept EXCEPT !.apps = Plan({}, {})]]
        ELSE [read |-> read_config.kind, out |-> config_outcome(read_config)]

\* --------------------------------------------------- check_app_updates ----
\* self.monitored_files: the files in insertion order and the time of each
NoMonitored == [names |-> <<>>, ts |-> EmptyFcn]

apps_per_module(cfg, module) ==
    {app \in Range(cfg.names) : app # GM /\ cfg.args[app].module = module}

apps_per_global_module(cfg, module) ==
    {app \in Range(cfg.names) : app # GM /\ module \in cfg.args[app].gmods}

\* the modules that self.app_config["global_modules"] lists
global_modules(cfg) ==
    IF GM \in Range(cfg.names) THEN cfg.args[GM].gmods ELSE {}

RECURSIVE scan_files(_, _, _)
\* lines 524-544: the new and the modified files, whose times are recorded
scan_files(files, mon, mods) ==
    IF files = <<>>
    THEN [monitored |-> mon, mods |-> mods]
    ELSE LET file == Head(files)
             modified == pyfiles[file].ts
         IN  IF file \in Range(mon.names)
             THEN IF mon.ts[file] < modified
                  THEN scan_files(Tail(files),
                                  [mon EXCEPT !.ts[file] = modified],
                                  Append(mods, [name |-> file, reload |-> TRUE]))
                  ELSE scan_files(Tail(files), mon, mods)
             ELSE scan_files(Tail(files),
                             [names |-> Append(mon.names, file),
                              ts |-> [f \in DOMAIN mon.ts \cup {file} |->
                                         IF f = file THEN modified ELSE mon.ts[f]]],
                             Append(mods, [name |-> file, reload |-> FALSE]))

RECURSIVE delete_modules(_, _, _)
\* lines 553-556: apps["term"][app] = 1 raises TypeError when apps is None
delete_modules(files, mon, plan) ==
    IF files = <<>>
    THEN [monitored |-> mon, apps |-> plan, raised |-> FALSE]
    ELSE LET file == Head(files)
             rest == [names |-> Filter(mon.names, Range(mon.names) \ {file}),
                      ts |-> Restrict(mon.ts, DOMAIN mon.ts \ {file})]
             hit == apps_per_module(app_config, file)
         IN  IF hit = {}
             THEN delete_modules(Tail(files), rest, plan)
             ELSE IF plan.none
             THEN [monitored |-> rest, apps |-> plan, raised |-> TRUE]
             ELSE delete_modules(Tail(files), rest, [plan EXCEPT !.term = @ \cup hit])

RECURSIVE add_modules_restarting(_, _)
\* A module step that plans the apps of a newly found module as it plans
\* those of a modified one.
add_modules_restarting(mods, plan) ==
    IF mods = <<>>
    THEN [apps |-> plan, raised |-> FALSE]
    ELSE LET m == Head(mods).name
             hit == apps_per_module(app_config, m)
                    \cup (IF m \in global_modules(app_config)
                          THEN apps_per_global_module(app_config, m)
                          ELSE {})
         IN  IF hit = {}
             THEN add_modules_restarting(Tail(mods), plan)
             ELSE IF plan.none
             THEN [apps |-> plan, raised |-> TRUE]
             ELSE add_modules_restarting(Tail(mods),
                      [plan EXCEPT !.term = @ \cup hit, !.init = @ \cup hit])

RECURSIVE add_modules(_, _)
\* lines 560-572: the apps of each new or modified module, and the apps
\* that list it as a global dependency when it is a global module
add_modules(mods, plan) ==
    IF mods = <<>>
    THEN [apps |-> plan, raised |-> FALSE]
    ELSE LET m == Head(mods).name
             hit == apps_per_module(app_config, m)
                    \cup (IF m \in global_modules(app_config)
                          THEN apps_per_global_module(app_config, m)
                          ELSE {})
         IN  IF hit = {}
             THEN add_modules(Tail(mods), plan)
             ELSE IF plan.none
             THEN [apps |-> plan, raised |-> TRUE]
             ELSE add_modules(Tail(mods),
                      [plan EXCEPT !.term = IF Head(mods).reload THEN @ \cup hit ELSE @,
                                   !.init = @ \cup hit])

\* utils.single_or_list(field): a list as it is, anything else as the list
\* of it (here the set of its elements)
single_or_list(field) == field.names

\* A plugin loop that passes over the apps that name no plugin.
plugin_reloads_named(cfg, p) ==
    {app \in Range(cfg.names) :
        /\ app # GM
        /\ cfg.args[app].plugin # NoPlugin
        /\ \E this_plugin \in single_or_list(cfg.args[app].plugin) :
               this_plugin = p \/ p = AllPlugins}

\* lines 577-592: the apps that a restart of plugin p reloads
plugin_reloads(cfg, p) ==
    {app \in Range(cfg.names) :
        /\ app # GM
        /\ \/ cfg.args[app].plugin = NoPlugin
           \/ /\ cfg.args[app].plugin # NoPlugin
              /\ \E this_plugin \in single_or_list(cfg.args[app].plugin) :
                     this_plugin = p \/ p = AllPlugins}

\* lines 574-596: what a plugin restart adds to apps
add_plugin_apps(plan) ==
    LET hit == IF plugin = NoSignal THEN {} ELSE plugin_reloads(app_config, plugin)
    IN  IF hit = {}
        THEN [apps |-> plan, raised |-> FALSE]
        ELSE IF plan.none
        THEN [apps |-> plan, raised |-> TRUE]
        ELSE [apps |-> [plan EXCEPT !.term = @ \cup hit, !.init = @ \cup hit],
              raised |-> FALSE]

\* lines 505-596: the scan of the code modules, and what it and the plugin
\* restart add to apps
plan_updates ==
    LET sc == scan_files(found_files, monitored_files, <<>>)
        deleted == Filter(sc.monitored.names,
                          {f \in Range(sc.monitored.names) :
                              f \notin Range(found_files) \/ exit})
        dm == delete_modules(deleted, sc.monitored, apps)
        am == add_modules(sc.mods, dm.apps)
        pl == add_plugin_apps(am.apps)
        out == [monitored |-> dm.monitored, mods |-> sc.mods, apps |-> dm.apps,
                scanned |-> dm.apps, raised |-> TRUE]
    IN  IF dm.raised
        THEN out
        ELSE IF am.raised
        THEN [out EXCEPT !.apps = am.apps, !.scanned = am.apps]
        ELSE [out EXCEPT !.apps = pl.apps, !.scanned = am.apps, !.raised = pl.raised]

\* Terminating in the order of apps.term's priorities, lowest first.
terminate_order_ascending == sorted(get_app_deps_and_prios(app_config, apps.term), FALSE)

\* line 604: by descending priority
terminate_order == sorted(get_app_deps_and_prios(app_config, apps.term), TRUE)

\* lines 598-617
terminate_apps ==
    IF apps.none \/ apps.term = {}
    THEN Registry
    ELSE term_objects(terminate_order, Registry)

\* importlib.import_module(m), __import__(m): a module imported before is
\* taken from sys.modules
can_import(m, sysm) == m \in sysm \/ pyfiles[m].status = "ok"

\* importlib.reload(self.modules[m])
can_reload(m) == pyfiles[m].status = "ok"

\* read_app(file, reload): whether it returned, and self.modules and
\* sys.modules after it
read_app(m, reload, mods, sysm) ==
    LET same == [ok |-> TRUE, modules |-> mods, sys_modules |-> sysm]
        import == IF can_import(m, sysm)
                  THEN [ok |-> TRUE, modules |-> mods \cup {m},
                        sys_modules |-> sysm \cup {m}]
                  ELSE [same EXCEPT !.ok = FALSE]
        load == IF apps_per_module(app_config, m) # {}
                THEN IF m \notin mods
                     THEN import
                     ELSE [same EXCEPT !.ok = can_reload(m)]
                ELSE IF m \in global_modules(app_config)
                THEN import
                ELSE same
    IN  IF reload /\ m \in mods
        THEN [same EXCEPT !.ok = can_reload(m)]
        ELSE load

\* lines 635-637: self.app_config[app]["module"] raises TypeError on the
\* entry "global_modules", and apps["init"] does when apps is None
handler_raises(plan, m) ==
    \/ GM \in Range(app_config.names)
    \/ plan.none /\ apps_per_module(app_config, m) # {}

\* A handler that removes every app of the cycle once a module fails.
drop_failed_all(plan, m) ==
    [plan EXCEPT !.init = {}]

\* lines 633-639: the apps of the failed module leave apps["init"]
drop_failed(plan, m) ==
    [plan EXCEPT !.init = @ \ apps_per_module(app_config, m)]

RECURSIVE load_modules(_, _)
\* lines 621-639
load_modules(mods, st) ==
    IF mods = <<>>
    THEN st
    ELSE LET m == Head(mods).name
             r == read_app(m, Head(mods).reload, st.modules, st.sys_modules)
             ev == Append(st.events, Event("read_app", m, objects, r.ok))
             next == [st EXCEPT !.modules = r.modules,
                                !.sys_modules = r.sys_modules,
                                !.events = ev]
         IN  IF r.ok
             THEN load_modules(Tail(mods), next)
             ELSE IF handler_raises(st.apps, m)
             THEN [next EXCEPT !.raised = TRUE]
             ELSE load_modules(Tail(mods),
                               [next EXCEPT !.apps = drop_failed(st.apps, m)])

\* lines 143-174, init_object(name): the registry and sys.modules after it,
\* whether the app was registered and whether the call raised (the import
\* or the constructor did).  The entry "global_modules" has no "class".
init_object(name, objs, sysm) ==
    LET m == app_config.args[name].module
        same == [objects |-> objs, sys_modules |-> sysm, ok |-> FALSE, raised |-> FALSE]
    IN  IF name = GM
        THEN [same EXCEPT !.raised = TRUE]
        ELSE IF m \notin Range(monitored_files.names)
        THEN same
        ELSE IF ~can_import(m, sysm)
        THEN [same EXCEPT !.raised = TRUE]
        ELSE IF app_config.args[name].class = "Missing"
        THEN [same EXCEPT !.sys_modules = sysm \cup {m}]
        ELSE IF app_config.args[name].class = "BadConstructor"
        THEN [same EXCEPT !.sys_modules = sysm \cup {m}, !.raised = TRUE]
        ELSE [objects |-> [a \in DOMAIN objs \cup {name} |->
                              IF a = name
                              THEN [args |-> app_config.args[name]]
                              ELSE objs[a]],
              sys_modules |-> sysm \cup {m}, ok |-> TRUE, raised |-> FALSE]

\* A test of "disable" that never finds it set.
disabled_never(name) == FALSE

\* lines 649-652: "disable" is True
disabled(name) == app_config.args[name].disable

\* the calls of init_object(name) that went from st to r: line 159 loads
\* the app's module when sys.modules does not hold it yet
init_object_events(name, st, r) ==
    (IF r.sys_modules # st.sys_modules
     THEN <<Event("import", app_config.args[name].module, st.objects, TRUE)>>
     ELSE <<>>)
    \o <<Event("init_object", name, st.objects, r.ok)>>

RECURSIVE construct_all_unguarded(_, _)
\* A construction loop that an exception of init_object ends.
construct_all_unguarded(order, st) ==
    IF order = <<>>
    THEN st
    ELSE IF disabled(Head(order))
    THEN construct_all_unguarded(Tail(order), st)
    ELSE LET r == init_object(Head(order), st.objects, st.sys_modules)
             next == [st EXCEPT !.objects = r.objects,
                                !.sys_modules = r.sys_modules,
                                !.events = @ \o init_object_events(Head(order), st, r)]
         IN  IF r.raised THEN next ELSE construct_all_unguarded(Tail(order), next)

RECURSIVE construct_all(_, _)
\* lines 647-661: init_object for each app that is not disabled; what it
\* raises is logged
construct_all(order, st) ==
    IF order = <<>>
    THEN st
    ELSE IF disabled(Head(order))
    THEN construct_all(Tail(order), st)
    ELSE LET r == init_object(Head(order), st.objects, st.sys_modules)
         IN  construct_all(Tail(order),
                 [st EXCEPT !.objects = r.objects,
                            !.sys_modules = r.sys_modules,
                            !.events = @ \o init_object_events(Head(order), st, r)])

\* whether the initialize hook that initialize_app(name) calls raises
initialize_raises(name, objs) ==
    name \in DOMAIN objs /\ objs[name].args.class = "BadInitialize"

\* lines 72-95, initialize_app(name): the initialize hook is called if the
\* app is in the registry, and what it raises is logged; a hook that
\* returns has registered the app's callbacks
initialize_app(name, st) ==
    [st EXCEPT !.callbacks = IF name \in DOMAIN st.objects
                                /\ ~initialize_raises(name, st.objects)
                             THEN @ \cup {name} ELSE @,
               !.events = Append(@, Event("initialize_app", name, st.objects,
                                          name \in DOMAIN st.objects))]

RECURSIVE initialize_all(_, _)
\* lines 667-671: initialize_app(app) for each app that is not disabled
initialize_all(order, st) ==
    IF order = <<>>
    THEN st
    ELSE IF disabled(Head(order))
    THEN initialize_all(Tail(order), st)
    ELSE initialize_all(Tail(order), initialize_app(Head(order), st))

RECURSIVE init_phase_interleaved(_, _)
\* One loop that constructs an app and calls its initialize at once.
init_phase_interleaved(order, st) ==
    IF order = <<>>
    THEN st
    ELSE init_phase_interleaved(Tail(order),
             initialize_all(<<Head(order)>>, construct_all(<<Head(order)>>, st)))

\* lines 647-671: every init_object, then every initialize_app
init_phase(order, st) == initialize_all(order, construct_all(order, st))

\* Constructing in the order get_app_deps_and_prios returns, unsorted.
initialize_order_unsorted == get_app_deps_and_prios(app_config, apps.init).names

\* lines 643-647: by ascending priority
initialize_order == sorted(get_app_deps_and_prios(app_config, apps.init), FALSE)

\* lines 641-671
initialize_apps ==
    LET st == [objects |-> objects, callbacks |-> callbacks,
               sys_modules |-> sys_modules, events |-> <<>>]
    IN  IF apps.none \/ apps.init = {}
        THEN st
        ELSE init_phase(initialize_order, st)

\* ------------------------------------------------------------ actions ----
\* The definitions written in the documents: at most MaxDeps dependencies,
\* and a configured priority only on an app of the first module that
\* depends on nothing.
LifeDefs ==
    {d \in Def({S \in SUBSET Apps : Cardinality(S) <= MaxDeps}, {{}},
                {NoPlugin}, {"App"}, {FALSE}) :
        \/ d.priority = NoPrio
        \/ d.priority = 600000 /\ d.dependencies = {} /\ d.module = ModNames[1]}

NoSort == [order |-> <<>>, raised |-> FALSE]
NoPrios == [names |-> <<>>, prio |-> EmptyFcn]

\* The threads that call into the object: the one that runs
\* check_app_updates, and one other (an app's callback, the admin interface).
Threads == {"updater", "caller"}
\* self.objects_lock = threading.RLock()
Unlocked == "-"
\* term = None: the thread holds the terminate hook of no instance
NoInstance == 0
\* a thread that is in no call
NoCall == [op |-> "-", app |-> "-", at |-> "idle", found |-> FALSE, term |-> NoInstance]

\* AppManagement.__init__
Constructed ==
    /\ app_config = EmptyConfig
    /\ app_config_files = NoFiles
    /\ app_config_file_modified = 0
    /\ monitored_files = NoMonitored
    /\ modules = {}
    /\ sys_modules = {}
    /\ objects = EmptyFcn
    /\ callbacks = {}
    /\ apps_initialized = FALSE
    /\ exit = FALSE
    /\ plugin = NoSignal
    /\ objects_lock = Unlocked
    /\ thread = [t \in Threads |-> NoCall]
    /\ apps = NoPlan
    /\ mod_list = <<>>
    /\ trace = <<>>
    /\ pre = [app_config |-> EmptyConfig, objects |-> EmptyFcn, callbacks |-> {},
              monitored_files |-> NoMonitored]
    /\ planned = NoPlan
    /\ scanned = NoPlan
    /\ read = "skipped"
    /\ crashed = FALSE
    /\ edited = TRUE
    /\ quiet = FALSE

\* The directory when the program starts: every module file importable,
\* and the documents that hold some app, each a valid mapping.
Init ==
    /\ \E S \in SUBSET Apps : fs_apps \in [S -> LifeDefs]
    /\ docs = [d \in Docs |->
                  [status |-> IF \E a \in DOMAIN fs_apps : DocOf(a) = d
                              THEN "ok" ELSE "absent",
                   ts |-> 1]]
    /\ pyfiles = [m \in Modules |-> [status |-> "ok", ts |-> 1]]
    /\ clock = 1
    /\ Constructed
    /\ pc = "idle"
    /\ applist = {}
    /\ sort_result = NoSort
    /\ prio_result = NoPrios

\* where a call of check_app_updates ends
Rest == IF exit THEN "stopped" ELSE "idle"

\* check_app_updates(exit=ex) up to line 503: apps = self.check_config()
Begin(ex, p) ==
    /\ pc = "idle"
    /\ LET c == check_config
       IN  /\ app_config' = c.out.app_config
           /\ objects' = c.out.objects
           /\ callbacks' = c.out.callbacks
           /\ apps' = c.out.apps
           /\ trace' = c.out.events
           /\ read' = c.read
    /\ app_config_file_modified' = check_later_app_configs.latest
    /\ app_config_files' = [listed |-> TRUE, files |-> yaml_files]
    /\ exit' = ex
    /\ plugin' = p
    /\ mod_list' = <<>>
    /\ pc' = "config"
    /\ pre' = [app_config |-> app_config, objects |-> objects,
               callbacks |-> callbacks, monitored_files |-> monitored_files]
    /\ planned' = NoPlan
    /\ scanned' = NoPlan
    /\ crashed' = FALSE
    /\ quiet' = (~edited /\ ~ex)
    /\ edited' = FALSE
    /\ UNCHANGED <<envVars, monitored_files, modules, sys_modules,
                   apps_initialized, sortVars, threadVars>>

\* the periodic call
CheckAppUpdates == Begin(FALSE, NoSignal)

\* terminate(): the shutdown call
Terminate == apps_initialized /\ Begin(TRUE, NoSignal)

\* lines 505-596: the module scan; a TypeError ends the call
PlanUpdates ==
    /\ pc = "config"
    /\ LET p == plan_updates
       IN  /\ monitored_files' = p.monitored
           /\ mod_list' = p.mods
           /\ apps' = p.apps
           /\ planned' = p.apps
           /\ scanned' = p.scanned
           /\ crashed' = p.raised
           /\ pc' = IF p.raised THEN Rest ELSE "plan"
    /\ UNCHANGED <<envVars, app_config, app_config_files, app_config_file_modified,
                   modules, sys_modules, objects, callbacks, apps_initialized,
                   exit, plugin, trace, pre, read, edited, quiet, sortVars, threadVars>>

\* lines 598-617
TerminateApps ==
    /\ pc = "plan"
    /\ LET t == terminate_apps
       IN  /\ objects' = t.objects
           /\ callbacks' = t.callbacks
           /\ trace' = trace \o t.events
    /\ pc' = "term"
    /\ UNCHANGED <<envVars, app_config, app_config_files, app_config_file_modified,
                   monitored_files, modules, sys_modules, apps_initialized,
                   exit, plugin, apps, mod_list, pre, scanned, planned, read,
                   crashed, edited,
                   quiet, sortVars, threadVars>>

\* lines 619-639
LoadModules ==
    /\ pc = "term"
    /\ LET l == load_modules(mod_list,
                    [modules |-> modules, sys_modules |-> sys_modules,
                     apps |-> apps, events |-> <<>>, raised |-> FALSE])
       IN  /\ modules' = l.modules
           /\ sys_modules' = l.sys_modules
           /\ apps' = l.apps
           /\ trace' = trace \o l.events
           /\ crashed' = l.raised
           /\ pc' = IF l.raised THEN Rest ELSE "load"
    /\ UNCHANGED <<envVars, app_config, app_config_files, app_config_file_modified,
                   monitored_files, objects, callbacks, apps_initialized, exit,
                   plugin, mod_list, pre, scanned, planned, read, edited, quiet,
                   sortVars, threadVars>>

\* lines 641-682
InitializeApps ==
    /\ pc = "load"
    /\ LET i == initialize_apps
       IN  /\ objects' = i.objects
           /\ callbacks' = i.callbacks
           /\ sys_modules' = i.sys_modules
           /\ trace' = trace \o i.events
    /\ apps_initialized' = TRUE
    /\ pc' = Rest
    /\ UNCHANGED <<envVars, app_config, app_config_files, app_config_file_modified,
                   monitored_files, modules, exit, plugin, apps, mod_list,
                   pre, scanned, planned, read, crashed, edited, quiet, sortVars, threadVars>>

\* ---- the environment: changes to the directory between two cycles
CanEdit == pc = "idle" /\ clock <= MaxEdits

Stamp == [status |-> "ok", ts |-> clock + 1]

Edited ==
    /\ clock' = clock + 1
    /\ edited' = TRUE
    /\ UNCHANGED <<objVars, cycleVars, trace, pre, scanned, planned, read, crashed, quiet,
                   sortVars, threadVars>>

\* an app definition is added to, or changed in, its document
WriteApp(a, d) ==
    /\ CanEdit
    /\ app_config_files.listed
    /\ docs[DocOf(a)].status \in {"ok", "absent"}
    /\ a \in DOMAIN fs_apps => fs_apps[a] # d
    /\ fs_apps' = [x \in DOMAIN fs_apps \cup {a} |-> IF x = a THEN d ELSE fs_apps[x]]
    /\ docs' = [docs EXCEPT ![DocOf(a)] = Stamp]
    /\ UNCHANGED pyfiles
    /\ Edited

\* an app definition is deleted from its document
RemoveApp(a) ==
    /\ CanEdit
    /\ app_config_files.listed
    /\ a \in DOMAIN fs_apps
    /\ fs_apps' = Restrict(fs_apps, DOMAIN fs_apps \ {a})
    /\ docs' = [docs EXCEPT ![DocOf(a)] = Stamp]
    /\ UNCHANGED pyfiles
    /\ Edited

\* a document is saved in a state that does not parse, or with a numeric entry
BreakDoc(d, how) ==
    /\ CanEdit
    /\ docs[d].status = "ok"
    /\ docs' = [docs EXCEPT ![d] = [status |-> how, ts |-> clock + 1]]
    /\ fs_apps' = Restrict(fs_apps, {a \in DOMAIN fs_apps : DocOf(a) # d})
    /\ UNCHANGED pyfiles
    /\ Edited

\* a document is deleted
DeleteDoc(d) ==
    /\ CanEdit
    /\ app_config_files.listed
    /\ docs[d].status # "absent"
    /\ docs' = [docs EXCEPT ![d] = [status |-> "absent", ts |-> 0]]
    /\ fs_apps' = Restrict(fs_apps, {a \in DOMAIN fs_apps : DocOf(a) # d})
    /\ UNCHANGED pyfiles
    /\ Edited

\* a module file is created or saved, importable or not
WriteModule(m, how) ==
    /\ CanEdit
    /\ pyfiles' = [pyfiles EXCEPT ![m] = [status |-> how, ts |-> clock + 1]]
    /\ UNCHANGED <<docs, fs_apps>>
    /\ Edited

\* a module file is deleted
DeleteModule(m) ==
    /\ CanEdit
    /\ pyfiles[m].status # "absent"
    /\ pyfiles' = [pyfiles EXCEPT ![m] = [status |-> "absent", ts |-> 0]]
    /\ UNCHANGED <<docs, fs_apps>>
    /\ Edited

\* the whole directory is emptied
ClearDirectory ==
    /\ CanEdit
    /\ yaml_files # {} /\ found_files # <<>>
    /\ docs' = [d \in Docs |-> [status |-> "absent", ts |-> 0]]
    /\ fs_apps' = EmptyFcn
    /\ pyfiles' = [m \in Modules |-> [status |-> "absent", ts |-> 0]]
    /\ Edited

\* Entries is the set of <<name, value>> an edit may write
Environment(Entries) ==
    \/ \E e \in Entries : WriteApp(e[1], e[2])
    \/ \E a \in Apps \cup {GM} : RemoveApp(a)
    \/ \E d \in Docs, how \in {"malformed", "badentry"} : BreakDoc(d, how)
    \/ \E d \in Docs : DeleteDoc(d)
    \/ \E m \in Modules, how \in {"ok", "broken"} : WriteModule(m, how)
    \/ \E m \in Modules : DeleteModule(m)
    \/ ClearDirectory

Next ==
    \/ CheckAppUpdates
    \/ PlanUpdates
    \/ TerminateApps
    \/ LoadModules
    \/ InitializeApps
    \/ Environment(Apps \X LifeDefs)

Spec == Init /\ [][Next]_vars

\* ------------------------------- configurations with global modules ----
\* App definitions that may list the last module as a global dependency,
\* and the values the entry "global_modules" takes.
LastModule == ModNames[NModules]
GlobalDefs ==
    {d \in Def({{}}, {{}, {LastModule}}, {NoPlugin}, {"App"}, {FALSE}) :
        d.priority = NoPrio}
GlobalLists == {GlobalModules({LastModule}), GlobalModules(Modules)}

\* The directory when the program starts, its first document holding an
\* entry "global_modules".
InitGlobal ==
    /\ \E S \in SUBSET Apps : \E f \in [S -> GlobalDefs] :
          fs_apps = [x \in S \cup {GM} |->
                        IF x = GM THEN GlobalModules({LastModule}) ELSE f[x]]
    /\ docs = [d \in Docs |->
                  [status |-> IF \E a \in DOMAIN fs_apps : DocOf(a) = d
                              THEN "ok" ELSE "absent",
                   ts |-> 1]]
    /\ pyfiles = [m \in Modules |-> [status |-> "ok", ts |-> 1]]
    /\ clock = 1
    /\ Constructed
    /\ pc = "idle"
    /\ applist = {}
    /\ sort_result = NoSort
    /\ prio_result = NoPrios

NextGlobal ==
    \/ CheckAppUpdates
    \/ PlanUpdates
    \/ TerminateApps
    \/ LoadModules
    \/ InitializeApps
    \/ Environment((Apps \X GlobalDefs) \cup ({GM} \X GlobalLists))

SpecGlobal == InitGlobal /\ [][NextGlobal]_vars

\* ------------------------------------------------- plugin restarts ----
\* App definitions of the first module with every kind of "plugin" entry.
PluginDefs ==
    {d \in Def({{}}, {{}},
                {NoPlugin, OnePlugin("p1"), PluginList({}), PluginList(Plugins)},
                {"App"}, {FALSE}) :
        d.module = ModNames[1] /\ d.priority = NoPrio}

InitPlugin ==
    /\ \E S \in SUBSET Apps : fs_apps \in [S -> PluginDefs]
    /\ docs = [d \in Docs |->
                  [status |-> IF \E a \in DOMAIN fs_apps : DocOf(a) = d
                              THEN "ok" ELSE "absent",
                   ts |-> 1]]
    /\ pyfiles = [m \in Modules |-> [status |-> "ok", ts |-> 1]]
    /\ clock = 1
    /\ Constructed
    /\ pc = "idle"
    /\ applist = {}
    /\ sort_result = NoSort
    /\ prio_result = NoPrios

\* check_app_updates(plugin=p): a plugin has restarted
PluginRestart(p) == Begin(FALSE, p)

NextPlugin ==
    \/ CheckAppUpdates
    \/ \E p \in Plugins \cup {AllPlugins} : PluginRestart(p)
    \/ PlanUpdates
    \/ TerminateApps
    \/ LoadModules
    \/ InitializeApps
    \/ Environment(Apps \X PluginDefs)

SpecPlugin == InitPlugin /\ [][NextPlugin]_vars

\* ------------------------------------------- apps whose code raises ----
\* App definitions of the first module whose class works, or raises in
\* its constructor, in its initialize hook or in its terminate hook.
FaultyDefs ==
    {d \in Def({{}}, {{}}, {NoPlugin},
                {"App", "BadConstructor", "BadInitialize", "BadTerminate"}, {FALSE}) :
        d.module = ModNames[1] /\ d.priority = NoPrio}

InitFaulty ==
    /\ \E S \in SUBSET Apps : fs_apps \in [S -> FaultyDefs]
    /\ docs = [d \in Docs |->
                  [status |-> IF \E a \in DOMAIN fs_apps : DocOf(a) = d
                              THEN "ok" ELSE "absent",
                   ts |-> 1]]
    /\ pyfiles = [m \in Modules |-> [status |-> "ok", ts |-> 1]]
    /\ clock = 1
    /\ Constructed
    /\ pc = "idle"
    /\ applist = {}
    /\ sort_result = NoSort
    /\ prio_result = NoPrios

NextFaulty ==
    \/ CheckAppUpdates
    \/ PlanUpdates
    \/ TerminateApps
    \/ LoadModules
    \/ InitializeApps
    \/ Environment(Apps \X FaultyDefs)

SpecFaulty == InitFaulty /\ [][NextFaulty]_vars

\* ------------------------------------- documents saved as a whole ----
\* App definitions of either module, with nothing else set.
BatchDefs ==
    {d \in Def({{}}, {{}}, {NoPlugin}, {"App"}, {FALSE}) : d.priority = NoPrio}

\* a document is saved with any definitions of its apps at once
SaveDoc(d, f) ==
    /\ CanEdit
    /\ app_config_files.listed
    /\ docs[d].status \in {"ok", "absent"}
    /\ LET kept == {a \in DOMAIN fs_apps : DocOf(a) # d}
       IN  /\ fs_apps' = [a \in kept \cup DOMAIN f |->
                             IF a \in DOMAIN f THEN f[a] ELSE fs_apps[a]]
           /\ fs_apps' # fs_apps
    /\ docs' = [docs EXCEPT ![d] = Stamp]
    /\ UNCHANGED pyfiles
    /\ Edited

InitBatch ==
    /\ \E S \in SUBSET Apps : fs_apps \in [S -> BatchDefs]
    /\ docs = [d \in Docs |->
                  [status |-> IF \E a \in DOMAIN fs_apps : DocOf(a) = d
                              THEN "ok" ELSE "absent",
                   ts |-> 1]]
    /\ pyfiles = [m \in Modules |-> [status |-> "ok", ts |-> 1]]
    /\ clock = 1
    /\ Constructed
    /\ pc = "idle"
    /\ applist = {}
    /\ sort_result = NoSort
    /\ prio_result = NoPrios

NextBatch ==
    \/ CheckAppUpdates
    \/ PlanUpdates
    \/ TerminateApps
    \/ LoadModules
    \/ InitializeApps
    \/ Environment(Apps \X BatchDefs)
    \/ \E d \in Docs : \E T \in SUBSET {a \in Apps : DocOf(a) = d} :
           \E f \in [T -> BatchDefs] : SaveDoc(d, f)

SpecBatch == InitBatch /\ [][NextBatch]_vars

\* ----------------------------------------------- disabled apps ----
\* App definitions of the first module, disabled or not, that depend on
\* nothing or on the first app.
DisableDefs ==
    {d \in Def({{}, {AppNames[1]}}, {{}}, {NoPlugin}, {"App"}, BOOLEAN) :
        d.module = ModNames[1] /\ d.priority = NoPrio}

InitDisable ==
    /\ \E S \in SUBSET Apps : fs_apps \in [S -> DisableDefs]
    /\ docs = [d \in Docs |->
                  [status |-> IF \E a \in DOMAIN fs_apps : DocOf(a) = d
                              THEN "ok" ELSE "absent",
                   ts |-> 1]]
    /\ pyfiles = [m \in Modules |-> [status |-> "ok", ts |-> 1]]
    /\ clock = 1
    /\ Constructed
    /\ pc = "idle"
    /\ applist = {}
    /\ sort_result = NoSort
    /\ prio_result = NoPrios

NextDisable ==
    \/ CheckAppUpdates
    \/ PlanUpdates
    \/ TerminateApps
    \/ LoadModules
    \/ InitializeApps
    \/ Environment(Apps \X DisableDefs)

SpecDisable == InitDisable /\ [][NextDisable]_vars

\* ------------------------------------------ the calls of the threads ----
\* The calls that take self.objects_lock, step by step: a step is what a
\* thread does between two points where another thread may run. A thread
\* enters a "with self.objects_lock:" block when no other thread holds the
\* lock, and the lock is released when the block is left.
ThreadDefs ==
    {d \in Def({{}}, {{}}, {NoPlugin}, {"App"}, {FALSE}) :
        d.module = ModNames[1] /\ d.priority = NoPrio}

\* the apps the threads make their calls for
CalledApps == {AppNames[1], AppNames[2]}

\* the calls a thread makes: check_app_updates calls term_object,
\* init_object and initialize_app; the other threads look apps up and
\* terminate them
CallsOf(t) ==
    IF t = "updater"
    THEN {"term_object", "init_object", "initialize_app"}
    ELSE {"get_app", "term_object"}

\* the places of a call where code of the app is running: its terminate or
\* initialize hook, or the import of its module and its constructor
UserCode == {"hook", "construct"}

\* line 168, "id": uuid.uuid4(): an identifier that no instance of the
\* registry and no hook a thread holds has
new_id ==
    LET used == {objects[a].id : a \in DOMAIN objects}
                \cup {thread[t].term : t \in Threads}
    IN  CHOOSE n \in 1..(NApps + Cardinality(Threads) + 1) :
            n \notin used /\ \A k \in 1..(n - 1) : k \in used

\* with self.objects_lock: the lock is re-entrant
can_acquire(t) == objects_lock \in {Unlocked, t}

At(t, op, at) == thread[t].op = op /\ thread[t].at = at

Returns(t) == thread' = [thread EXCEPT ![t] = NoCall]

Moves(t, at) == thread' = [thread EXCEPT ![t].at = at]

ThreadFrame == <<envVars, app_config, app_config_files, app_config_file_modified,
                 monitored_files, modules, apps_initialized, cycleVars,
                 histVars, sortVars>>

\* a thread calls op(name)
Call(t, op, name) ==
    /\ thread[t].at = "idle"
    /\ thread' = [thread EXCEPT ![t] = [op |-> op, app |-> name, at |-> "enter",
                                        found |-> FALSE, term |-> NoInstance]]
    /\ UNCHANGED <<ThreadFrame, objects, callbacks, sys_modules, objects_lock>>

\* lines 65-70, get_app(name)
GetApp(t) ==
    /\ At(t, "get_app", "enter")
    /\ can_acquire(t)
    /\ Returns(t)
    /\ UNCHANGED <<ThreadFrame, objects, callbacks, sys_modules, objects_lock>>

\* lines 72-81, initialize_app(name): the hook is looked up in the lock
InitializeAppLook(t) ==
    /\ At(t, "initialize_app", "enter")
    /\ can_acquire(t)
    /\ IF thread[t].app \in DOMAIN objects
       THEN thread' = [thread EXCEPT ![t].at = "hook", ![t].found = TRUE]
       ELSE Returns(t)
    /\ UNCHANGED <<ThreadFrame, objects, callbacks, sys_modules, objects_lock>>

\* lines 84-95: init() returns or raises
InitializeAppHook(t) ==
    /\ At(t, "initialize_app", "hook")
    /\ callbacks' = callbacks \cup {thread[t].app}
    /\ Returns(t)
    /\ UNCHANGED <<ThreadFrame, objects, sys_modules, objects_lock>>

\* lines 98-104, term_object(name): the hook is looked up in the lock
TermObjectLook(t) ==
    /\ At(t, "term_object", "enter")
    /\ can_acquire(t)
    /\ IF thread[t].app \in DOMAIN objects
       THEN thread' = [thread EXCEPT ![t].at = "hook", ![t].found = TRUE,
                                     ![t].term = objects[thread[t].app].id]
       ELSE Moves(t, "delete")
    /\ UNCHANGED <<ThreadFrame, objects, callbacks, sys_modules, objects_lock>>

\* lines 106-118: term() returns or raises
TermObjectHook(t) ==
    /\ At(t, "term_object", "hook")
    /\ Moves(t, "delete")
    /\ UNCHANGED <<ThreadFrame, objects, callbacks, sys_modules, objects_lock>>

\* lines 120-122: the entry is deleted in the lock
TermObjectDelete(t) ==
    /\ At(t, "term_object", "delete")
    /\ can_acquire(t)
    /\ objects' = Restrict(objects, DOMAIN objects \ {thread[t].app})
    /\ Moves(t, "purge")
    /\ UNCHANGED <<ThreadFrame, callbacks, sys_modules, objects_lock>>

\* lines 124-129: the collaborators' entries are purged
TermObjectPurge(t) ==
    /\ At(t, "term_object", "purge")
    /\ callbacks' = callbacks \ {thread[t].app}
    /\ Returns(t)
    /\ UNCHANGED <<ThreadFrame, objects, sys_modules, objects_lock>>

\* lines 143-149, init_object(name): the lock is taken if the module's file
\* is monitored
InitObjectEnter(t) ==
    /\ At(t, "init_object", "enter")
    /\ IF app_config.args[thread[t].app].module \in Range(monitored_files.names)
       THEN /\ can_acquire(t)
            /\ objects_lock' = t
            /\ Moves(t, "construct")
       ELSE /\ Returns(t)
            /\ UNCHANGED objects_lock
    /\ UNCHANGED <<ThreadFrame, objects, callbacks, sys_modules>>

\* lines 159-171: the module is imported and the class is called, the
\* instance is registered, and the with block is left
InitObjectConstruct(t) ==
    /\ At(t, "init_object", "construct")
    /\ LET r == init_object(thread[t].app, objects, sys_modules)
       IN  /\ objects' = IF r.ok
                         THEN [r.objects EXCEPT ![thread[t].app] =
                                  [args |-> @.args, id |-> new_id]]
                         ELSE r.objects
           /\ sys_modules' = r.sys_modules
    /\ objects_lock' = Unlocked
    /\ Returns(t)
    /\ UNCHANGED <<ThreadFrame, callbacks>>

\* Every app configured and its module loaded; any of the apps the
\* threads call for running.
InitThreads ==
    /\ fs_apps \in [Apps -> ThreadDefs]
    /\ app_config = ConfigOf(fs_apps)
    /\ \E S \in SUBSET CalledApps :
          /\ objects = [a \in S |-> [args |-> fs_apps[a], id |-> AppIndex(a)]]
          /\ callbacks = S
    /\ docs = [d \in Docs |-> [status |-> "ok", ts |-> 1]]
    /\ pyfiles = [m \in Modules |-> [status |-> "ok", ts |-> 1]]
    /\ clock = 1
    /\ app_config_files = [listed |-> TRUE, files |-> Docs]
    /\ app_config_file_modified = 1
    /\ monitored_files = [names |-> <<ModNames[1]>>,
                          ts |-> [m \in {ModNames[1]} |-> 1]]
    /\ modules = {ModNames[1]}
    /\ sys_modules = {ModNames[1]}
    /\ apps_initialized = TRUE
    /\ pc = "threads"
    /\ exit = FALSE
    /\ plugin = NoSignal
    /\ objects_lock = Unlocked
    /\ thread = [t \in Threads |-> NoCall]
    /\ apps = NoPlan
    /\ mod_list = <<>>
    /\ trace = <<>>
    /\ pre = [app_config |-> EmptyConfig, objects |-> EmptyFcn, callbacks |-> {},
              monitored_files |-> NoMonitored]
    /\ planned = NoPlan
    /\ scanned = NoPlan
    /\ read = "ok"
    /\ crashed = FALSE
    /\ edited = FALSE
    /\ quiet = FALSE
    /\ applist = {}
    /\ sort_result = NoSort
    /\ prio_result = NoPrios

NextThreads ==
    \E t \in Threads :
        \/ \E op \in CallsOf(t) : \E name \in CalledApps : Call(t, op, name)
        \/ GetApp(t)
        \/ InitializeAppLook(t)
        \/ InitializeAppHook(t)
        \/ TermObjectLook(t)
        \/ TermObjectHook(t)
        \/ TermObjectDelete(t)
        \/ TermObjectPurge(t)
        \/ InitObjectEnter(t)
        \/ InitObjectConstruct(t)

SpecThreads == InitThreads /\ [][NextThreads]_vars

\* ------------------------------- the dependency engine on its own ----
\* The definitions the dependency engine is tried on: any set of app
\* names (apps of the configuration or not) as dependencies, and a
\* configured priority on some apps that depend on nothing.
SortDefs ==
    {d \in Def(SUBSET Apps, {{}}, {NoPlugin}, {"App"}, {FALSE}) :
        /\ d.module = ModNames[1]
        /\ \/ d.priority = NoPrio
           \/ d.priority = 600000 /\ d.dependencies = {}}

\* Every configuration of up to NApps apps over SortDefs, and any applist.
InitSort ==
    /\ \E S \in SUBSET Apps : \E f \in [S -> SortDefs] :
           /\ app_config = ConfigOf(f)
           /\ fs_apps = f
    /\ applist \in {Range(app_config.names)} \cup {{a} : a \in Range(app_config.names)}
    /\ pc = "sort"
    /\ sort_result = NoSort
    /\ prio_result = NoPrios
    /\ docs = [d \in Docs |-> [status |-> "ok", ts |-> 1]]
    /\ pyfiles = [m \in Modules |-> [status |-> "ok", ts |-> 1]]
    /\ clock = 1
    /\ app_config_files = [listed |-> TRUE, files |-> Docs]
    /\ app_config_file_modified = 1
    /\ monitored_files = NoMonitored
    /\ modules = {}
    /\ sys_modules = {}
    /\ objects = EmptyFcn
    /\ callbacks = {}
    /\ apps_initialized = FALSE
    /\ exit = FALSE
    /\ plugin = NoSignal
    /\ objects_lock = Unlocked
    /\ thread = [t \in Threads |-> NoCall]
    /\ apps = NoPlan
    /\ mod_list = <<>>
    /\ trace = <<>>
    /\ pre = [app_config |-> EmptyConfig, objects |-> EmptyFcn, callbacks |-> {},
              monitored_files |-> NoMonitored]
    /\ planned = NoPlan
    /\ scanned = NoPlan
    /\ read = "ok"
    /\ crashed = FALSE
    /\ edited = FALSE
    /\ quiet = FALSE

\* for app in self.topological_sort(deps)
RunSort ==
    /\ pc = "sort"
    /\ sort_result' = topological_sort(build_deps(app_config))
    /\ pc' = "sorted"
    /\ UNCHANGED <<envVars, objVars, exit, plugin, apps, mod_list, histVars, threadVars,
                   applist, prio_result>>

\* prio_apps = self.get_app_deps_and_prios(applist)
RunPrios ==
    /\ pc = "sorted"
    /\ prio_result' = get_app_deps_and_prios(app_config, applist)
    /\ pc' = "prios"
    /\ UNCHANGED <<envVars, objVars, exit, plugin, apps, mod_list, histVars, threadVars,
                   applist, sort_result>>

NextSort == RunSort \/ RunPrios

SpecSort == InitSort /\ [][NextSort]_vars

\* ------------------------------------------------- what is claimed ----
RECURSIVE DependsOnWithin(_, _, _)
\* the apps that the apps of S depend on through at most n valid edges
DependsOnWithin(cfg, S, n) ==
    IF n = 0
    THEN S
    ELSE DependsOnWithin(cfg, S \cup UNION {dependees(cfg, a) : a \in S}, n - 1)

\* everything app depends on, directly or not
DependsOn(cfg, app) == DependsOnWithin(cfg, dependees(cfg, app), Len(cfg.names))

OnCycle(cfg, app) == app \in DependsOn(cfg, app)

HasCycle(cfg) == \E a \in Range(cfg.names) : OnCycle(cfg, a)

\* on a cycle, or depending on an app that is
Stuck(cfg, app) ==
    OnCycle(cfg, app) \/ \E b \in DependsOn(cfg, app) : OnCycle(cfg, b)

\* C1: when the valid dependency relation is acyclic, topological_sort
\* emits every app exactly once, and each app after all the apps it
\* depends on.
C1_SortOrdersAcyclic ==
    (pc \in {"sorted", "prios"} /\ ~HasCycle(app_config)) =>
        /\ IsInjective(sort_result.order)
        /\ Range(sort_result.order) = Range(app_config.names)
        /\ \A a \in Range(app_config.names) :
               \A d \in dependees(app_config, a) :
                   IndexOf(sort_result.order, d) < IndexOf(sort_result.order, a)

\* three apps sorted, one of them listed before an app it depends on
C1_Witness ==
    /\ pc = "sorted"
    /\ ~HasCycle(app_config)
    /\ Len(sort_result.order) = 3
    /\ \E a, d \in Range(app_config.names) :
           /\ d \in dependees(app_config, a)
           /\ IndexOf(app_config.names, a) < IndexOf(app_config.names, d)

\* C2: when the dependency relation has a cycle (an app depending on
\* itself included), topological_sort raises, having emitted exactly the
\* apps that are neither on a cycle nor depend on one, and these are
\* exactly the apps that get_app_deps_and_prios gives a priority.
C2_CycleRaises ==
    (pc \in {"sorted", "prios"} /\ HasCycle(app_config)) =>
        /\ sort_result.raised
        /\ Range(sort_result.order) =
               {a \in Range(app_config.names) : ~Stuck(app_config, a)}
        /\ (pc = "prios" /\ applist = Range(app_config.names)) =>
               /\ prio_result.names = sort_result.order
               /\ DOMAIN prio_result.prio =
                      {a \in Range(app_config.names) : ~Stuck(app_config, a)}

\* a cycle, an app that only depends on it, and an app that got a priority
C2_Witness ==
    /\ pc = "prios"
    /\ applist = Range(app_config.names)
    /\ sort_result.raised
    /\ DOMAIN prio_result.prio # {}
    /\ \E a \in Range(app_config.names) :
           Stuck(app_config, a) /\ ~OnCycle(app_config, a)

\* ---- the cycles of check_app_updates
\* the places of the calls of one kind in the cycle's trace
EventsOf(op) == {i \in DOMAIN trace : trace[i].op = op}

\* the calls the terminate phase made: term_object for apps that the
\* applied configuration still holds (the config diff terminates the others)
PhaseTerminations ==
    {i \in EventsOf("term_object") : trace[i].app \in Range(app_config.names)}

\* the priorities get_app_deps_and_prios works with in this cycle
AssignedPrio == prio_apps_of(app_config).prio

\* the call has returned
CycleOver == pc \in {"idle", "stopped"} /\ apps_initialized /\ ~crashed

\* C3: in a cycle every init_object of the batch comes before every
\* initialize hook of the batch, so that each hook finds in the registry
\* every app of the batch that was constructed, whatever the priorities.
C3_ConstructBeforeInitialize ==
    \A i \in EventsOf("initialize_app"), j \in EventsOf("init_object") :
        /\ j < i
        /\ trace[j].ok => trace[j].app \in trace[i].live

\* the initialize hook of an app ran with an app of higher priority, built
\* later in the same batch, already in the registry
C3_Witness ==
    /\ CycleOver
    /\ \E i \in EventsOf("initialize_app"), j \in EventsOf("init_object") :
           /\ trace[i].ok /\ trace[j].ok
           /\ trace[j].app \notin DOMAIN pre.objects
           /\ AssignedPrio[trace[i].app] < AssignedPrio[trace[j].app]

\* C4: when B declares a valid dependency on A and a cycle processes both,
\* A is constructed before B and A's initialize hook is called before B's,
\* and B is terminated before A in the terminate phase.
C4_DependencyOrder ==
    \A A, B \in Range(app_config.names) :
        (A # B /\ A \in dependees(app_config, B)) =>
            /\ \A op \in {"init_object", "initialize_app"} :
                   \A i, j \in EventsOf(op) :
                       (trace[i].app = A /\ trace[j].app = B) => i < j
            /\ \A i, j \in PhaseTerminations :
                   (trace[i].app = A /\ trace[j].app = B) => j < i

\* a cycle terminated a running app and its running dependent, and then
\* constructed and initialised both
C4_Witness ==
    /\ CycleOver
    /\ \E A, B \in Range(app_config.names) :
           /\ A # B /\ A \in dependees(app_config, B)
           /\ \E i, j \in PhaseTerminations :
                  trace[i].app = A /\ trace[j].app = B /\ trace[i].ok /\ trace[j].ok
           /\ \E i, j \in EventsOf("initialize_app") :
                  trace[i].app = A /\ trace[j].app = B /\ trace[i].ok /\ trace[j].ok

\* C5: a cycle constructs the batch, and calls its initialize hooks, in an
\* order of non-decreasing assigned priority, and its terminate phase
\* terminates in an order of non-increasing assigned priority.
C5_PriorityOrder ==
    /\ \A op \in {"init_object", "initialize_app"} :
           \A i, j \in EventsOf(op) :
               i < j => AssignedPrio[trace[i].app] <= AssignedPrio[trace[j].app]
    /\ \A i, j \in PhaseTerminations :
           i < j => AssignedPrio[trace[i].app] >= AssignedPrio[trace[j].app]

\* a cycle terminated, and then constructed, three apps of three different
\* priorities: the default, one given to an app with a dependent, and an
\* explicit one
C5_Witness ==
    /\ CycleOver
    /\ \E i, j, k \in PhaseTerminations :
           /\ AssignedPrio[trace[i].app] > AssignedPrio[trace[j].app]
           /\ AssignedPrio[trace[j].app] > AssignedPrio[trace[k].app]
    /\ \E i, j, k \in EventsOf("init_object") :
           /\ AssignedPrio[trace[i].app] < AssignedPrio[trace[j].app]
           /\ AssignedPrio[trace[j].app] < AssignedPrio[trace[k].app]

\* C6: a cycle that follows another with no change to a document or to a
\* module file in between has empty terminate and initialize sets,
\* terminates no app, constructs no app and leaves the registry as it was.
C6_QuietCycleIdle ==
    quiet =>
        /\ apps.init = {} /\ apps.term = {}
        /\ EventsOf("term_object") = {} /\ EventsOf("init_object") = {}
        /\ objects = pre.objects

\* the read of the configuration failed in the cycle
ReadFailed == read \in {"none", "raised"}

\* C7: when the read of the configuration raises or yields no
\* configuration, check_config returns no plan, and the applied
\* configuration and the registry are what they were before the cycle: no
\* app is terminated and nothing of the new configuration is applied.
C7_FailedReadKeepsState ==
    ReadFailed =>
        /\ apps.none
        /\ app_config = pre.app_config
        /\ objects = pre.objects
        /\ EventsOf("term_object") = {}

\* check_config has returned from a read that raised, with apps running
\* whose definitions the documents no longer give
C7_Witness ==
    /\ pc = "config"
    /\ read = "raised"
    /\ DOMAIN objects # {}
    /\ \E a \in DOMAIN objects : a \notin DOMAIN fs_apps

\* the apps that were applied and whose document does not parse now
DefinedByMalformed ==
    {a \in Range(pre.app_config.names) : docs[DocOf(a)].status = "malformed"}

\* C8: when a document is malformed the cycle keeps the prior state: the
\* apps the document defined stay in the applied configuration and stay
\* running.
C8_MalformedKeepsApps ==
    (pc = "config" /\ read # "skipped") =>
        \A a \in DefinedByMalformed :
            /\ a \in Range(app_config.names)
            /\ a \in DOMAIN pre.objects => a \in DOMAIN objects

\* the apps that were applied and that no document defines any more
DroppedApps == Range(pre.app_config.names) \ DOMAIN fs_apps

\* those of them whose definition was removed: no document is broken
RemovedApps ==
    IF \A d \in Docs : docs[d].status \in {"ok", "absent"}
    THEN DroppedApps
    ELSE {}

\* the apps that still declare a dependency on a, their definition unchanged
KeptDependents(a) ==
    {b \in Range(app_config.names) \cap Range(pre.app_config.names) :
        /\ a \in app_config.args[b].dependencies
        /\ app_config.args[b] = pre.app_config.args[b]}

\* what C9 says of the apps S once the config diff of the cycle has run
RemovalHandled(S) ==
    \A a \in S :
        /\ \E i \in EventsOf("term_object") : trace[i].app = a
        /\ a \notin DOMAIN objects
        /\ a \notin Range(app_config.names)
        /\ \A b \in KeptDependents(a) :
               /\ b \notin apps.term
               /\ \A i \in EventsOf("term_object") : trace[i].app # b
               /\ b \in DOMAIN pre.objects => b \in DOMAIN objects

\* C9 as stated: whenever an app's definition is removed from the
\* configuration, the config diff of the cycle that sees the change
\* terminates it and removes it from the registry, and terminates no app
\* that still declares a dependency on it.
C9_RemovedAppTerminated ==
    (pc = "config" /\ read # "skipped") => RemovalHandled(RemovedApps)

\* C9: whenever an app's definition is removed from the configuration and
\* the cycle's read of the configuration yields a configuration, the config
\* diff terminates the app and removes it from the registry and terminates
\* no app that still declares a dependency on it; and when nothing else is
\* planned for termination the terminate phase terminates nothing.
C9_RemovedAppTerminatedOnRead ==
    /\ (pc = "config" /\ read = "ok") => RemovalHandled(DroppedApps)
    /\ (pc \in {"term", "load"} /\ read = "ok" /\ planned.term = {}) =>
           \A i \in EventsOf("term_object") : trace[i].app \in DroppedApps

\* a running app was removed while a running app that depends on it was
\* kept, and the cycle's terminate phase is over
C9_Witness ==
    /\ pc = "term"
    /\ read = "ok"
    /\ planned.term = {}
    /\ \E a \in RemovedApps :
           /\ a \in DOMAIN pre.objects
           /\ \E b \in KeptDependents(a) : b \in DOMAIN objects

\* the modules whose load or reload failed in the cycle
FailedModules == {trace[i].app : i \in {j \in EventsOf("read_app") : ~trace[j].ok}}

\* the apps whose module field names one of them
AppsOfFailedModules == UNION {apps_per_module(app_config, m) : m \in FailedModules}

\* the apps the cycle would construct and initialise had every load succeeded
WouldInitialize == Range(get_app_deps_and_prios(app_config, planned.init).names)

\* C10: when the load or reload of a module fails in a cycle, exactly the
\* apps whose module field names it leave the initialize set, and every
\* other app that the cycle would construct and initialise had the load
\* succeeded is still constructed and has its initialize hook called.
C10_LoadFailureConfined ==
    FailedModules # {} =>
        /\ pc = "load" => apps.init = planned.init \ AppsOfFailedModules
        /\ pc \in {"idle", "stopped"} =>
               \A a \in WouldInitialize \ AppsOfFailedModules :
                   /\ \E i \in EventsOf("init_object") : trace[i].app = a
                   /\ \E i \in EventsOf("initialize_app") : trace[i].app = a

\* ---- plugin restarts
\* what C11 says decides whether the restart of plugin p reloads an app
RestartConcerns(app, p) ==
    \/ app_config.args[app].plugin.kind = "none"
    \/ p \in app_config.args[app].plugin.names
    \/ p = AllPlugins

\* C11: in a cycle that carries a plugin-restart signal p, an app other
\* than the entry global_modules is added to the terminate and to the
\* initialize set if and only if it names no plugin, or names p, or p is
\* the wildcard: the wildcard adds every app.
C11_PluginRestartPlan ==
    (pc = "plan" /\ plugin # NoSignal) =>
        \A a \in Range(app_config.names) \ {GM} :
            IF RestartConcerns(a, plugin)
            THEN a \in apps.term /\ a \in apps.init
            ELSE /\ a \in apps.term <=> a \in scanned.term
                 /\ a \in apps.init <=> a \in scanned.init


UpdaterInUserCode == thread["updater"].at \in UserCode

\* C12: objects_lock is never held while code of an app runs: while the
\* terminate hook, the initialize hook or the constructor of an app runs
\* on the thread of check_app_updates, that thread does not hold the lock
\* and no other thread's get_app is kept waiting for it.
C12_LockFreeInUserCode ==
    UpdaterInUserCode =>
        /\ objects_lock # "updater"
        /\ \A t \in Threads \ {"updater"} :
               At(t, "get_app", "enter") => can_acquire(t)

\* the calls of term_object in this cycle on a running app whose terminate
\* hook raises
RaisingTerminations ==
    {i \in EventsOf("term_object") :
        /\ trace[i].ok
        /\ trace[i].app \in DOMAIN pre.objects
        /\ pre.objects[trace[i].app].args.class = "BadTerminate"}

\* C13: when the terminate hook of an app raises, term_object still
\* removes the app from the registry and purges its callbacks, scheduler
\* entries and api registrations, the exception does not leave
\* term_object, and the other apps of the cycle are still terminated.
C13_RaisingTerminateCleansUp ==
    pc = "term" =>
        /\ \A i \in RaisingTerminations :
               /\ trace[i].app \notin DOMAIN objects
               /\ trace[i].app \notin callbacks
        /\ ~apps.none =>
               \A a \in Range(terminate_order) :
                   /\ \E i \in EventsOf("term_object") : trace[i].app = a
                   /\ a \notin DOMAIN objects
                   /\ a \notin callbacks
        /\ ~crashed

C13_Witness ==
    /\ pc = "term"
    /\ \E i \in RaisingTerminations : \E j \in EventsOf("term_object") :
           /\ i < j
           /\ trace[j].ok
           /\ trace[i].app \in pre.callbacks
           /\ trace[j].app \notin DOMAIN objects

\* the apps the initialize phase of the cycle went through, in its order
Batch == IF apps.none THEN <<>> ELSE initialize_order

ClassOf(a) == app_config.args[a].class

Constructible(a) ==
    /\ a # GM
    /\ ~disabled(a)
    /\ app_config.args[a].module \in Range(monitored_files.names)
    /\ ClassOf(a) \in {"App", "BadInitialize"}

Called(op, a) == \E i \in EventsOf(op) : trace[i].app = a /\ trace[i].ok

\* C14: a constructor or an initialize hook that raises is confined to its
\* app: every other app of the initialize batch is still constructed and
\* its initialize hook is still called, and the cycle completes.
C14_InitFailureConfined ==
    /\ [](CycleOver =>
             \A a \in Range(Batch) :
                 Constructible(a) =>
                     /\ a \in DOMAIN objects
                     /\ Called("init_object", a)
                     /\ Called("initialize_app", a)
                     /\ ClassOf(a) = "App" => a \in callbacks)
    /\ [][pc = "load" => pc' = Rest /\ apps_initialized' /\ ~crashed']_vars

C14_Witness ==
    /\ CycleOver
    /\ \E i, j, k \in DOMAIN Batch :
           /\ i < k
           /\ j < k
           /\ ClassOf(Batch[i]) = "BadConstructor"
           /\ ClassOf(Batch[j]) = "BadInitialize"
           /\ ClassOf(Batch[k]) = "App"
           /\ Batch[i] \notin DOMAIN objects
           /\ Batch[j] \in DOMAIN objects
           /\ Batch[k] \in callbacks

\* the apps of the configuration before the read, and of the one applied
OldApps == Range(pre.app_config.names) \ {GM}
NewApps == Range(app_config.names) \ {GM}
ChangedApps == {a \in OldApps \cap NewApps : pre.app_config.args[a] # app_config.args[a]}
AddedApps == NewApps \ OldApps

\* C15: the plan check_config returns holds every app whose definition
\* changed in its terminate and in its initialize set, every added app in
\* its initialize set only, and no unchanged and no removed app.
C15_ConfigDiffPlan ==
    (pc = "config" /\ read = "ok") =>
        /\ ~apps.none
        /\ apps.term \ {GM} = ChangedApps
        /\ apps.init \ {GM} = ChangedApps \cup AddedApps

C15_Witness ==
    /\ pc = "config"
    /\ read = "ok"
    /\ \E a \in ChangedApps : a \in DOMAIN objects /\ a \in apps.term \cap apps.init
    /\ \E a \in (OldApps \cap NewApps) \ ChangedApps :
           a \in DOMAIN objects /\ a \notin apps.term \cup apps.init

\* what the scan of the cycle reported of a module file
ModifiedModules == {m.name : m \in {x \in Range(mod_list) : x.reload}}
FoundModules == {m.name : m \in {x \in Range(mod_list) : ~x.reload}}
DeletedModules == Range(pre.monitored_files.names) \ Range(monitored_files.names)
ReportedModules == ModifiedModules \cup FoundModules \cup DeletedModules

\* C16: when the module step of a cycle has run, an app of a modified
\* module is in the terminate and in the initialize set, an app of a
\* deleted module is in the terminate set, an app of a newly found module
\* is in the initialize set and the step has not put it in the terminate
\* set, and the step has added no app of a module that was not reported.
C16_ModulePlan ==
    (pc = "plan" /\ ~apps.none) =>
        \A a \in NewApps :
            LET m == app_config.args[a].module
            IN  /\ m \in ModifiedModules => a \in scanned.term /\ a \in scanned.init
                /\ m \in DeletedModules => a \in scanned.term
                /\ m \in FoundModules =>
                       /\ a \in scanned.init
                       /\ a \in scanned.term <=> a \in ChangedApps
                /\ m \notin ReportedModules =>
                       /\ a \in scanned.term <=> a \in ChangedApps
                       /\ a \in scanned.init <=> a \in ChangedApps \cup AddedApps

C16_Witness ==
    /\ pc = "plan"
    /\ ~apps.none
    /\ \E a, b \in NewApps \cap DOMAIN objects :
           /\ app_config.args[a].module \in ModifiedModules
           /\ app_config.args[b].module \notin ReportedModules
           /\ a \in scanned.term \cap scanned.init
           /\ b \notin scanned.term \cup scanned.init

\* the apps that declare a global dependency on the global module g
GlobalDependents(g) ==
    IF g \in global_modules(app_config)
    THEN apps_per_global_module(app_config, g) \ {GM}
    ELSE {}

\* C17: a reported change of a global module reaches the apps that declare
\* a global dependency on it: they are in the terminate and in the
\* initialize set when the module is modified, and in the terminate set
\* when it is deleted.
C17_GlobalModulePlan ==
    (pc = "plan" /\ ~apps.none) =>
        \A g \in Modules : \A a \in GlobalDependents(g) :
            /\ g \in ModifiedModules => a \in scanned.term /\ a \in scanned.init
            /\ g \in DeletedModules => a \in scanned.term

\* app a declares a dependency on a name that is not in the configuration
DependsOnMissing(a) ==
    app_config.args[a].dependencies \ Range(app_config.names) # {}

\* C18: an app that declares a dependency on a name that is not an app of
\* the configuration is left out of the priorities that
\* get_app_deps_and_prios returns, so the cycle neither terminates nor
\* initialises it.
C18_MissingDependencyExcluded ==
    pc = "prios" =>
        \A a \in Range(app_config.names) :
            DependsOnMissing(a) => a \notin DOMAIN prio_result.prio

\* app a has a "dependencies" entry, or some app depends on it
InChain(a) ==
    \/ app_config.args[a].dependencies # {}
    \/ \E b \in Range(app_config.names) : a \in app_config.args[b].dependencies

\* the apps of a dependency chain that the sort emitted before a
ChainedBefore(a) ==
    {b \in Range(sort_result.order) :
        /\ InChain(b)
        /\ IndexOf(sort_result.order, b) < IndexOf(sort_result.order, a)}

\* C19: of the apps get_app_deps_and_prios gives a priority, each one that
\* has a dependency entry or a dependent gets a value above the default
\* 50, starting at 50.1 and growing by 0.0001 in the order the sort
\* emitted them, so that no two of them share a value; each other app
\* gets its configured priority, or 50 when it has none.
C19_PriorityValues ==
    pc = "prios" =>
        /\ \A a \in DOMAIN prio_result.prio :
               IF InChain(a)
               THEN /\ prio_result.prio[a] > PrioDefault
                    /\ prio_result.prio[a] =
                           PrioStart + Cardinality(ChainedBefore(a)) * PrioStep
               ELSE prio_result.prio[a] =
                        IF app_config.args[a].priority # NoPrio
                        THEN app_config.args[a].priority
                        ELSE PrioDefault
        /\ \A a, b \in DOMAIN prio_result.prio :
               (InChain(a) /\ InChain(b) /\ a # b) =>
                   /\ prio_result.prio[a] # prio_result.prio[b]
                   /\ IndexOf(sort_result.order, a) < IndexOf(sort_result.order, b)
                          => prio_result.prio[a] < prio_result.prio[b]

\* three apps with priorities: one configured with 60 that nothing depends
\* on, one configured with 60 that has a dependent, and its dependent
C19_Witness ==
    /\ pc = "prios"
    /\ \E a, b, c \in DOMAIN prio_result.prio :
           /\ app_config.args[a].priority = 600000
           /\ prio_result.prio[a] = 600000
           /\ app_config.args[b].priority = 600000
           /\ prio_result.prio[b] = PrioStart
           /\ b \in app_config.args[c].dependencies
           /\ prio_result.prio[c] = PrioStart + PrioStep

\* C20: a cycle whose read of the configuration failed, so that
\* check_config gave no plan, still runs to its end without raising,
\* whatever module files changed, and leaves the registry as it was.
C20_FailedReadCompletes ==
    ReadFailed =>
        /\ ~crashed
        /\ objects = pre.objects


\* the apps of the cycle's plan
PlannedApps == (planned.term \cup planned.init) \ {GM}

AnyCall(op, a) == \E i \in EventsOf(op) : trace[i].app = a

SameEntry(a) ==
    /\ a \in DOMAIN objects <=> a \in DOMAIN pre.objects
    /\ a \in DOMAIN objects => objects[a] = pre.objects[a]

\* C21: when the dependencies of the configuration have a cycle, the call
\* still ends: the planned apps that are neither on a cycle nor depend on
\* one are terminated and initialised as planned, and each planned app on
\* a cycle or depending on one is not terminated, not constructed and not
\* initialised, its registry entry being what it was.
C21_CycleDegrades ==
    (CycleOver /\ HasCycle(app_config)) =>
        \A a \in PlannedApps :
            IF Stuck(app_config, a)
            THEN /\ ~AnyCall("term_object", a)
                 /\ ~AnyCall("init_object", a)
                 /\ ~AnyCall("initialize_app", a)
                 /\ SameEntry(a)
            ELSE /\ a \in planned.term => AnyCall("term_object", a)
                 /\ a \in apps.init =>
                        AnyCall("init_object", a) /\ AnyCall("initialize_app", a)

\* a call planned an app on a cycle, an app that depends on the cycle and
\* an app that is not stuck, and constructed only the last
C21_Witness ==
    /\ CycleOver
    /\ \E a, b, c \in PlannedApps :
           /\ OnCycle(app_config, a)
           /\ ~OnCycle(app_config, b) /\ Stuck(app_config, b)
           /\ ~Stuck(app_config, c)
           /\ Called("init_object", c)
           /\ DOMAIN objects = {c}


\* the apps the terminate phase of the cycle called term_object for
TerminatedInPhase == {trace[i].app : i \in PhaseTerminations}

\* S and every app that depends, directly or not, on an app of S
WithDependents(S) ==
    S \cup {a \in Range(app_config.names) : DependsOn(app_config, a) \cap S # {}}

\* C22: the terminate phase terminates the apps of the planned terminate
\* set and the apps that depend on them, directly or not, as far as they
\* were given a priority, and no other app: never an app that a planned
\* app depends on.
C22_TerminatesDependents ==
    (pc = "term" /\ ~apps.none) =>
        TerminatedInPhase = WithDependents(apps.term) \cap DOMAIN AssignedPrio

\* one running app alone was planned; a second depends on it and a third
\* on the second: the three were terminated
C22_Witness ==
    /\ pc = "term"
    /\ \E a, b, c \in Range(app_config.names) :
           /\ apps.term = {a}
           /\ a \in app_config.args[b].dependencies
           /\ b \in app_config.args[c].dependencies
           /\ {a, b, c} \subseteq DOMAIN pre.objects
           /\ TerminatedInPhase = {a, b, c}


\* C23: in a cycle every termination comes, with its entry removed from
\* the registry, before any module is loaded or reloaded, and every load or
\* reload of a module comes before any app is constructed.
C23_PhasesOrdered ==
    /\ \A i \in PhaseTerminations : \A j \in EventsOf("read_app") \cup EventsOf("import") :
           i < j /\ trace[i].app \notin trace[j].live
    /\ \A j \in EventsOf("read_app") \cup EventsOf("import") :
           \A k \in EventsOf("init_object") : trace[k].ok => j < k

\* C23 as amended: the terminate phase, the load phase and the construct
\* phase follow one another; init_object loads a module only if the load
\* phase had nothing to load for it.
C23_LoadPhaseBetween ==
    /\ \A i \in PhaseTerminations : \A j \in EventsOf("read_app") \cup EventsOf("import") :
           i < j /\ trace[i].app \notin trace[j].live
    /\ \A j \in EventsOf("read_app") :
           \A k \in EventsOf("init_object") \cup EventsOf("import") : j < k
    /\ \A j \in EventsOf("import") :
           \A m \in Range(mod_list) : m.name # trace[j].app

\* a cycle terminated an app, reloaded its module and constructed it again
C23_Witness ==
    /\ CycleOver
    /\ \E i \in PhaseTerminations, j \in EventsOf("read_app"), k \in EventsOf("init_object") :
           /\ trace[i].ok /\ trace[j].ok /\ trace[k].ok
           /\ trace[i].app = trace[k].app
           /\ app_config.args[trace[k].app].module = trace[j].app


\* the applied definition of app a has "disable" set
MarkedDisabled(a) == app_config.args[a].disable

\* app a was running when the cycle began and the cycle planned to
\* terminate it
RunningAndPlanned(a) == a \in DOMAIN pre.objects /\ a \in planned.term

\* C24: an app whose applied definition is disabled is not constructed and
\* its initialize hook is not called by the initialize phase; if it was
\* running and is in the terminate set of the cycle, it is terminated and
\* is not in the registry when the cycle ends.
C24_DisabledStaysOff ==
    CycleOver =>
        \A a \in NewApps :
            MarkedDisabled(a) =>
                /\ ~AnyCall("init_object", a)
                /\ ~AnyCall("initialize_app", a)
                /\ RunningAndPlanned(a) =>
                       AnyCall("term_object", a) /\ a \notin DOMAIN objects

\* C24 as amended: the same, for the apps of the terminate set that were
\* given a priority.
C24_DisabledWithPriorityStaysOff ==
    CycleOver =>
        \A a \in NewApps :
            MarkedDisabled(a) =>
                /\ ~AnyCall("init_object", a)
                /\ ~AnyCall("initialize_app", a)
                /\ (RunningAndPlanned(a) /\ a \in DOMAIN AssignedPrio) =>
                       AnyCall("term_object", a) /\ a \notin DOMAIN objects

\* a running app was disabled: the cycle terminated it and, though it was
\* in the initialize set too, did not construct it
C24_Witness ==
    /\ CycleOver
    /\ \E a \in NewApps :
           /\ MarkedDisabled(a)
           /\ RunningAndPlanned(a)
           /\ a \in apps.init
           /\ a \in Range(Batch)
           /\ Called("term_object", a)
           /\ a \notin DOMAIN objects


\* C25: when init_object registers an instance under a name, the registry
\* holds no instance under that name: a running app has been terminated
\* earlier in the cycle before it is constructed again.
C25_ConstructedOnlyWhenAbsent ==
    \A k \in EventsOf("init_object") :
        trace[k].ok => trace[k].app \notin trace[k].live


\* thread t is in term_object with the terminate hook of an instance: it
\* is calling the hook or has called it
HoldsHook(t) == thread[t].op = "term_object" /\ thread[t].term # NoInstance

\* C26: when several threads call term_object for the same app at once,
\* the terminate hook of an instance is called at most once: no two
\* threads call the hook of the same instance.
C26_TerminateHookOnce ==
    \A t, u \in Threads :
        (t # u /\ HoldsHook(t) /\ HoldsHook(u)) => thread[t].term # thread[u].term


\* the call of check_app_updates has returned, normally or by an exception
CallReturned == pc \in {"idle", "stopped"} /\ apps_initialized

\* the apps that ran when the cycle began and whose definition the cycle
\* found removed
RemovedRunning == (DOMAIN pre.objects \cap OldApps) \ NewApps

\* C27: at the end of every cycle each name in the registry is the name of
\* an app in the applied configuration: no instance outlives the
\* definition it was built from.
C27_RegistryWithinConfig ==
    CallReturned => DOMAIN objects \subseteq NewApps

\* a cycle that found the definition of a running app removed has ended
\* with other apps still in the registry
C27_Witness ==
    /\ CallReturned
    /\ RemovedRunning # {}
    /\ objects # EmptyFcn


\* ------------------------------------------------------------ shutdown ----
\* The cycles of check_app_updates, and terminate() called between two of
\* them: the call with exit set is the last of the program.
ExitDefs ==
    {d \in Def({S \in SUBSET Apps : Cardinality(S) <= MaxDeps}, {{}},
                {NoPlugin}, {"App"}, {FALSE}) :
        d.module = ModNames[1] /\ d.priority = NoPrio}

InitExit ==
    /\ \E S \in SUBSET Apps : fs_apps \in [S -> ExitDefs]
    /\ docs = [d \in Docs |->
                  [status |-> IF \E a \in DOMAIN fs_apps : DocOf(a) = d
                              THEN "ok" ELSE "absent",
                   ts |-> 1]]
    /\ pyfiles = [m \in Modules |-> [status |-> "ok", ts |-> 1]]
    /\ clock = 1
    /\ Constructed
    /\ pc = "idle"
    /\ applist = {}
    /\ sort_result = NoSort
    /\ prio_result = NoPrios

NextExit ==
    \/ CheckAppUpdates
    \/ Terminate
    \/ PlanUpdates
    \/ TerminateApps
    \/ LoadModules
    \/ InitializeApps
    \/ Environment(Apps \X ExitDefs)

SpecExit == InitExit /\ [][NextExit]_vars

\* the shutdown call has returned
ShutDown == pc = "stopped"

\* the shutdown call found the directory as the cycle before it left it: no
\* document to read, no module new or modified, no monitored module gone
NothingChanged ==
    /\ read = "skipped"
    /\ mod_list = <<>>
    /\ Range(pre.monitored_files.names) \subseteq Range(found_files)

\* C28: a shutdown call that finds nothing changed calls term_object for
\* every app in the registry, constructs no app, and leaves the registry
\* empty.
C28_ShutdownEmptiesRegistry ==
    (ShutDown /\ NothingChanged) =>
        /\ \A a \in DOMAIN pre.objects : AnyCall("term_object", a)
        /\ \A a \in Apps : ~AnyCall("init_object", a)
        /\ objects = EmptyFcn

=============================================================================
